---- MODULE Spec2Model ----
(***************************************************************************)
(* The Huddle REST backend (src/app.py): route handlers over the five      *)
(* Firestore collections; modelled here are users, groups, questions and  *)
(* discussions.                                                            *)
(*                                                                         *)
(* Each handler runs on its own worker.  A handler that makes one store    *)
(* call is one action; a handler that reads and later writes is one action *)
(* per store call, with the values it read kept in the worker's record     *)
(* th[w], so that other workers' store calls interleave between them.      *)
(* resp is the response most recently sent, with the request it answers.   *)
(***************************************************************************)
EXTENDS Integers, Sequences, FiniteSets, TLC

VARIABLES users, groups, questions, discussions, clock, th, resp

vars == <<users, groups, questions, discussions, clock, th, resp>>

\* ------------------------------------------------------------------ bounds
MaxUsers == 2
Workers == {1, 2}

\* ------------------------------------------------------- JSON and Python
\* JSON null, Python None, and the result of dict.get on an absent key.
NULL == "null"

\* data.get(k, d)
Get(data, k, d) == IF k \in DOMAIN data THEN data[k] ELSE d

\* str(v): the identity on strings, "None" on None.
Str(v) == IF v = NULL THEN "None" ELSE v

\* Python truthiness of a string-or-None value.
Truthy(v) == v # NULL /\ v # ""

Idle == [pc |-> "idle"]

\* Worker w may take the next request: idle workers are interchangeable, so
\* the first idle one takes it.
Free(w) == th[w] = Idle /\ \A v \in Workers : v < w => th[v] # Idle

NoResp == [op |-> "none", status |-> 0]

\* Firestore add(): the new document gets a fresh auto-generated id.
AddDoc(coll, id, doc) == [x \in DOMAIN coll \cup {id} |-> IF x = id THEN doc ELSE coll[x]]

\* Firestore ArrayUnion([e]): appends e unless an equal element is present.
ArrayUnion(arr, e) == IF \E i \in 1..Len(arr) : arr[i] = e THEN arr ELSE Append(arr, e)

\* Firestore ArrayRemove([e]): removes every element equal to e.
ArrayRemove(arr, e) == SelectSeq(arr, LAMBDA x : x # e)

\* ================================================================ accounts
Emails == {"a@x", "b@x"}
Passwords == {"pw1", "pw2"}
Salts == {1, 2}
DefaultBio == "Passionate student"

UserDocIds == 1..MaxUsers

RequiredSignup == {"email", "password", "fullName", "university", "branch", "academicYear"}

FullBody(e, p) ==
    [email |-> e, password |-> p, fullName |-> "Ann", university |-> "uni",
     branch |-> "cs", academicYear |-> "2"]

WithSkills(b) == [k \in DOMAIN b \cup {"skills"} |-> IF k = "skills" THEN <<"py">> ELSE b[k]]

Drop(b, k) == [x \in DOMAIN b \ {k} |-> b[x]]

\* Request bodies of /signup: complete ones, with and without skills, and
\* ones in which one required field is absent, null or empty.
SignupBodies ==
    LET full == {FullBody(e, p) : e \in Emails, p \in Passwords}
        base == FullBody("a@x", "pw1")
        bad  == {Drop(base, k) : k \in RequiredSignup}
                \cup {[base EXCEPT ![k] = ""] : k \in RequiredSignup}
                \cup {[base EXCEPT !.university = NULL]}
    IN  full \cup {WithSkills(base)} \cup bad \cup {WithSkills(Drop(base, "branch"))}

LoginBodies ==
    {[email |-> e, password |-> p] : e \in Emails, p \in Passwords}
    \cup {[email |-> "a@x"], [password |-> "pw1"], [email |-> "", password |-> "pw1"]}

\* bcrypt.hashpw(password, salt): the salt is embedded in the output.
hashpw(password, salt) == [salt |-> salt, digest |-> password]

hash_password(password, salt) == hashpw(password, salt)

\* A check that hashes the given password again, under the first salt,
\* instead of under the salt embedded in the stored hash.
check_password_rehash(password, stored_hash) == hashpw(password, 1) = stored_hash

check_password(password, stored_hash) == hashpw(password, stored_hash.salt) = stored_hash

\* users_ref.where('email', '==', email).limit(1).get(): the matching
\* documents in document-id order, cut to the first.
QueryByEmail(email) ==
    LET hits == {id \in DOMAIN users : users[id].email = email}
    IN  IF hits = {} THEN {} ELSE {CHOOSE id \in hits : \A o \in hits : id <= o}

\* A validation that tests branch against None only, so that an empty
\* branch passes.
signup_valid_branch_none(data) ==
    /\ Truthy(Get(data, "email", NULL))
    /\ Truthy(Get(data, "password", NULL))
    /\ Truthy(Get(data, "fullName", NULL))
    /\ Truthy(Get(data, "university", NULL))
    /\ Get(data, "branch", NULL) # NULL
    /\ Truthy(Get(data, "academicYear", NULL))

\* The validation of /signup.
signup_valid(data) ==
    /\ Truthy(Get(data, "email", NULL))
    /\ Truthy(Get(data, "password", NULL))
    /\ Truthy(Get(data, "fullName", NULL))
    /\ Truthy(Get(data, "university", NULL))
    /\ Truthy(Get(data, "branch", NULL))
    /\ Truthy(Get(data, "academicYear", NULL))

\* An existence query on the wrong field.
signup_exists_by_name(data) == \E id \in DOMAIN users : users[id].fullName = data.email

signup_exists(data) == QueryByEmail(data.email) # {}

\* The document /signup stores.
user_data(data, salt) ==
    [email |-> data.email,
     password |-> hash_password(data.password, salt),
     fullName |-> data.fullName,
     university |-> data.university,
     branch |-> data.branch,
     academicYear |-> data.academicYear,
     skills |-> Get(data, "skills", <<>>),
     profilePhotoUrl |-> "",
     coverPhotoUrl |-> "",
     bio |-> DefaultBio]

\* The profile projection returned by /signup, /login and /getuser.
Profile(id, user) ==
    [id |-> id, email |-> user.email, fullName |-> user.fullName,
     university |-> user.university, branch |-> user.branch,
     academicYear |-> user.academicYear, skills |-> user.skills,
     profilePhotoUrl |-> user.profilePhotoUrl,
     coverPhotoUrl |-> user.coverPhotoUrl, bio |-> user.bio]

\* /signup up to the existence query: 400, 409, or on to the insert.
SignupCheck(w) ==
    /\ Free(w)
    /\ \E data \in SignupBodies :
        IF ~signup_valid(data)
        THEN /\ resp' = [op |-> "signup", data |-> data, status |-> 400]
             /\ UNCHANGED th
        ELSE IF signup_exists(data)
        THEN /\ resp' = [op |-> "signup", data |-> data, status |-> 409]
             /\ UNCHANGED th
        ELSE /\ th' = [th EXCEPT ![w] = [pc |-> "signup_insert", data |-> data]]
             /\ UNCHANGED resp
    /\ UNCHANGED <<users, groups, questions, discussions, clock>>

\* An insert under a uniqueness constraint of the store: 409 when a document
\* has the email by then.
SignupInsertUnique(w) ==
    /\ th[w].pc = "signup_insert"
    /\ IF signup_exists(th[w].data)
       THEN /\ resp' = [op |-> "signup", data |-> th[w].data, status |-> 409]
            /\ UNCHANGED users
       ELSE \E id \in UserDocIds \ DOMAIN users : \E salt \in Salts :
              LET doc == user_data(th[w].data, salt)
              IN  /\ users' = AddDoc(users, id, doc)
                  /\ resp' = [op |-> "signup", data |-> th[w].data, status |-> 200,
                              user |-> Profile(id, doc)]
    /\ th' = [th EXCEPT ![w] = Idle]
    /\ UNCHANGED <<groups, questions, discussions, clock>>

\* /signup from the hash to the response: users_ref.add(user_data).
SignupInsert(w) ==
    /\ th[w].pc = "signup_insert"
    /\ \E id \in UserDocIds \ DOMAIN users : \E salt \in Salts :
        LET doc == user_data(th[w].data, salt)
        IN  /\ users' = AddDoc(users, id, doc)
            /\ resp' = [op |-> "signup", data |-> th[w].data, status |-> 200,
                        user |-> Profile(id, doc)]
    /\ th' = [th EXCEPT ![w] = Idle]
    /\ UNCHANGED <<groups, questions, discussions, clock>>

\* The response of /login.
login_api(data) ==
    LET email == Get(data, "email", NULL)
        password == Get(data, "password", NULL)
        users_list == QueryByEmail(email)
    IN  IF ~Truthy(email) \/ ~Truthy(password)
        THEN [op |-> "login", data |-> data, status |-> 400]
        ELSE IF users_list = {}
        THEN [op |-> "login", data |-> data, status |-> 404]
        ELSE LET user_id == CHOOSE id \in users_list : TRUE
             IN  IF ~check_password(password, users[user_id].password)
                 THEN [op |-> "login", data |-> data, status |-> 401]
                 ELSE [op |-> "login", data |-> data, status |-> 200,
                       user |-> Profile(user_id, users[user_id])]

Login ==
    /\ \E data \in LoginBodies : resp' = login_api(data)
    /\ UNCHANGED <<users, groups, questions, discussions, clock, th>>

\* ------------------------------------------------------------ /updateprofile
Whitelist == {"fullName", "bio", "profilePhotoUrl", "coverPhotoUrl", "skills"}

\* A user id in a request: <<id>> for the id of a document, << >> for
\* null and for the empty string.
NoUserId == << >>

\* Request bodies of /updateprofile for each document id (an id with no
\* document among them until MaxUsers signups are done): a new fullName and
\* photos with a university and an academicYear; a new bio and skills with
\* an email, a password and a branch; no field at all; and bodies with no
\* userId and with a null or empty one.
UpdateProfileBodies ==
    {[userId |-> <<id>>, fullName |-> "Bob", profilePhotoUrl |-> "p.png",
      coverPhotoUrl |-> "c.png", university |-> "mit", academicYear |-> "9"] :
        id \in UserDocIds}
    \cup {[userId |-> <<id>>, bio |-> "hi", skills |-> <<"tla">>, email |-> "evil@x",
           password |-> "pw9", branch |-> "ee"] : id \in UserDocIds}
    \cup {[userId |-> <<id>>] : id \in UserDocIds}
    \cup {[fullName |-> "Bob"], [userId |-> NoUserId, bio |-> "hi", email |-> "evil@x"]}

\* An update_data that copies every field of the request but userId.
update_data_all(data) == [field \in DOMAIN data \ {"userId"} |-> data[field]]

\* update_data: the whitelisted fields present in the request.
update_data(data) == [field \in Whitelist \cap DOMAIN data |-> data[field]]

\* DocumentReference.update(fields) on an existing document: the fields
\* given are set, the others kept.
Update(doc, fields) ==
    [k \in DOMAIN doc \cup DOMAIN fields |-> IF k \in DOMAIN fields THEN fields[k] ELSE doc[k]]

\* /updateprofile: one update.  On a missing document the update raises and
\* the handler answers 500; an update with no field changes nothing, and is
\* answered 200 or, where the client library refuses an empty update, 500.
update_profile(bodies) ==
    /\ \E data \in bodies :
         LET user_id == Get(data, "userId", NoUserId)
         IN  IF user_id = NoUserId
             THEN /\ resp' = [op |-> "updateprofile", data |-> data, status |-> 400]
                  /\ UNCHANGED users
             ELSE IF update_data(data) = << >>
             THEN /\ \E status \in {200, 500} :
                       resp' = [op |-> "updateprofile", data |-> data, status |-> status]
                  /\ UNCHANGED users
             ELSE IF user_id[1] \notin DOMAIN users
             THEN /\ resp' = [op |-> "updateprofile", data |-> data, status |-> 500]
                  /\ UNCHANGED users
             ELSE /\ users' = [users EXCEPT ![user_id[1]] = Update(@, update_data(data))]
                  /\ resp' = [op |-> "updateprofile", data |-> data, status |-> 200]
    /\ UNCHANGED <<groups, questions, discussions, clock, th>>

\* ------------------------------------------------------ accounts: claims
\* Every required signup field is present and non-empty.
AllRequiredPresent(data) ==
    \A k \in RequiredSignup : k \in DOMAIN data /\ data[k] # NULL /\ data[k] # ""

EmailStored(email) == \E id \in DOMAIN users : users[id].email = email

\* The step sends a new response of handler op without starting or
\* finishing a two-call request: the request was answered at its first call.
AnsweredAtOnce(op) == resp' # resp /\ resp'.op = op /\ th' = th

\* C7: a signup whose required fields are all present and whose email is the
\* email of a user document in the store when the handler queries it is
\* answered 409 and leaves the users collection unchanged; no signup goes on
\* to its insert with such an email.
C7_SignupConflict ==
    [][ /\ (AnsweredAtOnce("signup") /\ AllRequiredPresent(resp'.data)
              /\ EmailStored(resp'.data.email))
           => (resp'.status = 409 /\ users' = users)
        /\ (AnsweredAtOnce("signup") /\ resp'.status = 409)
           => (EmailStored(resp'.data.email) /\ users' = users)
        /\ \A w \in Workers :
             (th[w] = Idle /\ th'[w].pc = "signup_insert")
             => ~EmailStored(th'[w].data.email) ]_vars

C7_Witness ==
    /\ resp.op = "signup" /\ resp.status = 409
    /\ EmailStored(resp.data.email)

\* C8: a signup in which one of email, password, fullName, university,
\* branch, academicYear is missing or empty is answered 400 and creates no
\* user document; a body with all of them and no skills is not answered 400,
\* and the document its insert creates has skills = the empty list.
C8_SignupRequired ==
    [][ /\ (AnsweredAtOnce("signup") /\ ~AllRequiredPresent(resp'.data))
           => (resp'.status = 400 /\ users' = users)
        /\ (resp' # resp /\ resp'.op = "signup" /\ AllRequiredPresent(resp'.data))
           => resp'.status # 400
        /\ \A w \in Workers :
             (th[w] = Idle /\ th'[w].pc = "signup_insert")
             => AllRequiredPresent(th'[w].data)
        /\ (resp' # resp /\ resp'.op = "signup" /\ resp'.status = 200)
           => \E id \in DOMAIN users' \ DOMAIN users :
                /\ DOMAIN users' = DOMAIN users \cup {id}
                /\ users'[id].email = resp'.data.email
                /\ users'[id].skills =
                     (IF "skills" \in DOMAIN resp'.data THEN resp'.data.skills ELSE <<>>) ]_vars

C8_Witness ==
    /\ resp.op = "signup" /\ resp.status = 400
    /\ "branch" \notin DOMAIN resp.data
    /\ \E id \in DOMAIN users : users[id].skills = <<>>

\* The document the email query of /login finds: the first in id order.
FirstWithEmail(email) ==
    CHOOSE id \in DOMAIN users :
        /\ users[id].email = email
        /\ \A o \in DOMAIN users : users[o].email = email => id <= o

\* The password a stored hash was made from.
SignupPassword(id) == users[id].password.digest

LoginBody(id) == [email |-> users[id].email, password |-> SignupPassword(id)]

\* C9 as stated, last part: every user document created by a signup can
\* log in with the password given at signup.
C9_EverySignupCanLogin ==
    \A id \in DOMAIN users : login_api(LoginBody(id)).status = 200

\* C9, amended: a login with email and password is answered 404 when no
\* user document has the email, 401 when the document found for the email
\* has a hash the password does not match, and otherwise 200 with the
\* profile of that document, which has no password field; and a user
\* document that is the first in id order among those with its email (so
\* any document whose email no other document has) can log in with the
\* password given at signup.
C9_Login ==
    /\ [][ (resp' # resp /\ resp'.op = "login"
              /\ "email" \in DOMAIN resp'.data /\ "password" \in DOMAIN resp'.data
              /\ resp'.data.email # "" /\ resp'.data.password # "")
           => /\ users' = users
              /\ IF ~EmailStored(resp'.data.email)
                 THEN resp'.status = 404
                 ELSE LET id == FirstWithEmail(resp'.data.email)
                      IN  IF SignupPassword(id) # resp'.data.password
                          THEN resp'.status = 401
                          ELSE /\ resp'.status = 200
                               /\ "password" \notin DOMAIN resp'.user
                               /\ resp'.user.id = id
                               /\ resp'.user.email = resp'.data.email ]_vars
    /\ [](\A id \in DOMAIN users :
            id = FirstWithEmail(users[id].email)
            => /\ login_api(LoginBody(id)).status = 200
               /\ login_api(LoginBody(id)).user.id = id)

\* A login answered 200 while two documents share its email.
C9_Witness ==
    /\ resp.op = "login" /\ resp.status = 200
    /\ \E i, j \in DOMAIN users : i # j /\ users[i].email = users[j].email
                                  /\ users[i].email = resp.data.email

\* Two user documents have the same email.
SharedEmail == \E i, j \in DOMAIN users : i # j /\ users[i].email = users[j].email

\* At most one signup request is between its existence query and its insert.
OneAtATime == Cardinality({w \in Workers : th[w] # Idle}) <= 1

\* C15: the email of a signup is looked for by a query before the insert and
\* by nothing else: a signup goes on to its insert exactly when no user
\* document has its email at the query, and its insert succeeds and adds
\* one document with that email whatever the store holds by then, so that
\* two documents share an email exactly when another signup stored the email
\* between the query and the insert; and in a run in which signups are
\* handled one after another no two user documents ever share an email.
C15_EmailCheckedBeforeInsert ==
    /\ [][ \A w \in Workers :
             /\ (th[w] = Idle /\ th'[w].pc = "signup_insert")
                => (~EmailStored(th'[w].data.email) /\ users' = users)
             /\ (th[w].pc = "signup_insert" /\ th'[w] = Idle)
                => /\ resp'.op = "signup" /\ resp'.status = 200
                   /\ \E id \in DOMAIN users' \ DOMAIN users :
                        /\ DOMAIN users' = DOMAIN users \cup {id}
                        /\ users'[id].email = th[w].data.email
                        /\ \A o \in DOMAIN users : users'[o] = users[o]
                   /\ (~SharedEmail /\ SharedEmail')
                        <=> (~SharedEmail /\ EmailStored(th[w].data.email)) ]_vars
    /\ ([]OneAtATime => []~SharedEmail)

\* Two user documents with one email, stored by two signups of which the
\* second was answered 200 too.
C15_Witness ==
    /\ resp.op = "signup" /\ resp.status = 200
    /\ \E i, j \in DOMAIN users :
         /\ i # j /\ users[i].email = users[j].email
         /\ users[i].email = resp.data.email
         /\ users[i].password.digest # users[j].password.digest

\* C17: an updateProfile request with a userId changes, on the user document
\* the userId names, the whitelisted fields present in the request to the
\* values given, and nothing else: the document's email, password hash,
\* university, branch and academicYear and its whitelisted fields absent
\* from the request stay as they are whatever other keys the request
\* carries, every other user document stays as it is, and no document is
\* added; a request without userId is answered 400 and changes nothing; and
\* no other step changes a user document.
C17_UpdateProfileFrame ==
    [][ /\ (resp' # resp /\ resp'.op = "updateprofile")
           => LET data == resp'.data
                  named == IF "userId" \in DOMAIN data /\ data.userId # NoUserId
                           THEN {data.userId[1]} ELSE {}
              IN  /\ named = {} => (resp'.status = 400 /\ users' = users)
                  /\ DOMAIN users' = DOMAIN users
                  /\ \A id \in DOMAIN users :
                       IF id \in named /\ resp'.status = 200
                       THEN /\ DOMAIN users'[id] = DOMAIN users[id]
                            /\ \A k \in DOMAIN users[id] :
                                 users'[id][k] =
                                   (IF k \in Whitelist \cap DOMAIN data THEN data[k]
                                    ELSE users[id][k])
                       ELSE users'[id] = users[id]
        /\ \A id \in DOMAIN users :
             users'[id] # users[id] => resp'.op = "updateprofile" ]_vars

\* A profile update that carried an email, a password and a branch has
\* changed the bio and skills of one of two users whose fullName an earlier
\* update changed.
C17_Witness ==
    /\ resp.op = "updateprofile" /\ resp.status = 200
    /\ "email" \in DOMAIN resp.data
    /\ Cardinality(DOMAIN users) = 2
    /\ LET user == users[resp.data.userId[1]]
       IN  /\ user.bio = "hi" /\ user.skills = <<"tla">> /\ user.fullName = "Bob"
           /\ user.email \in Emails /\ user.branch = "cs"
           /\ user.password.digest \in Passwords

\* ================================================================== groups
\* User ids as requests carry them; the service never checks them against
\* the users collection.
UserIds == {"u1", "u2"}

GroupDocIds == {"g1", "g2"}
OneGroup == {"g1"}

\* Characters of the free-text preferred_team_size; a string is a sequence.
Digits == {"0", "1", "2", "3", "4", "5", "6", "7", "8", "9"}

DigitVal(c) ==
    CASE c = "0" -> 0 [] c = "1" -> 1 [] c = "2" -> 2 [] c = "3" -> 3 [] c = "4" -> 4
      [] c = "5" -> 5 [] c = "6" -> 6 [] c = "7" -> 7 [] c = "8" -> 8 [] c = "9" -> 9

\* Values of preferred_team_size: "", "2 m", "0", "x3y1", "10", "abc".
TeamSizes ==
    {<< >>, <<"2", " ", "m">>, <<"0">>, <<"x", "3", "y", "1">>, <<"1", "0">>,
     <<"a", "b", "c">>}

PlainTeamSizes == {<< >>, <<"2", " ", "m">>}

\* An optional integer: None is the empty sequence, n is <<n>>.
None == << >>
Some(n) == <<n>>

\* int(s) of a string of digits.
RECURSIVE ParseInt(_)
ParseInt(s) == IF s = << >> THEN 0 ELSE 10 * ParseInt(SubSeq(s, 1, Len(s) - 1)) + DigitVal(s[Len(s)])

\* The end of the digit run that starts at i.
RECURSIVE RunEnd(_, _)
RunEnd(s, i) == IF i < Len(s) /\ s[i + 1] \in Digits THEN RunEnd(s, i + 1) ELSE i

\* re.search(r'(\d+)', s): the leftmost, longest digit run, or None.
SearchDigits(s) ==
    LET starts == {i \in 1..Len(s) : s[i] \in Digits}
    IN  IF starts = {} THEN None
        ELSE LET i == CHOOSE x \in starts : \A y \in starts : x <= y
             IN  Some(SubSeq(s, i, RunEnd(s, i)))

\* maxsize of /getavailablegroups: the first digit run as an integer; a
\* string without a digit run fails int() too and gives None.
max_size(preferredteamsize) ==
    IF preferredteamsize = << >> THEN None
    ELSE LET match == SearchDigits(preferredteamsize)
         IN  IF match # None THEN Some(ParseInt(match[1])) ELSE None

\* isfull: "if maxsize and len(members) >= maxsize".
is_full(maxsize, members) == maxsize # None /\ maxsize[1] # 0 /\ Len(members) >= maxsize[1]

InSeq(e, arr) == \E i \in 1..Len(arr) : arr[i] = e

\* One entry of the list /getavailablegroups returns.
group_entry(group, userid) ==
    LET members == group.members
        maxsize == max_size(group.preferred_team_size)
    IN  [members |-> members,
         memberCount |-> Len(members),
         maxMembers |-> maxsize,
         isFull |-> is_full(maxsize, members),
         isMember |-> IF userid # "" THEN InSeq(userid, members) ELSE FALSE,
         preferredteamsize |-> group.preferred_team_size]

\* The userId arguments of /getavailablegroups: a user, or none.
ListingUserIds == UserIds \cup {""}

\* /getavailablegroups
get_groups ==
    /\ \E userid \in ListingUserIds :
         resp' = [op |-> "getavailablegroups", userId |-> userid, status |-> 200,
                  groups |-> [g \in DOMAIN groups |-> group_entry(groups[g], userid)]]
    /\ UNCHANGED <<users, groups, questions, discussions, clock, th>>

PlainCreateGroupBodies(sizes) ==
    {[project_name |-> "proj", creatoruserid |-> u, preferred_team_size |-> s] :
        u \in UserIds, s \in sizes}

CreateGroupBodies(sizes) ==
    PlainCreateGroupBodies(sizes)
    \cup {[project_name |-> "proj", preferred_team_size |-> << >>],
          [project_name |-> "proj", creatoruserid |-> "u1"],
          [project_name |-> "", creatoruserid |-> "u1", preferred_team_size |-> << >>],
          [creatoruserid |-> "u1"]}

\* The request bodies of /creategroup each specification draws from.
GroupsCreateBodies == CreateGroupBodies(PlainTeamSizes)
ListGroupsCreateBodies == CreateGroupBodies(TeamSizes)
GateCreateBodies == PlainCreateGroupBodies({<< >>})
CapacityCreateBodies == PlainCreateGroupBodies({<<"1">>, <<"2", " ", "m">>})

\* The document /creategroup stores.
group_data(data) ==
    LET creator_id == Str(Get(data, "creatoruserid", NULL))
    IN  [creatoruserid |-> creator_id,
         project_name |-> data.project_name,
         preferred_team_size |-> Get(data, "preferred_team_size", << >>),
         members |-> <<creator_id>>]

\* The id of the next document of a collection: the ids of groups, questions
\* and discussions are opaque and never ordered, so the least free one
\* stands for any.
FreshId(ids, coll) == CHOOSE id \in ids \ DOMAIN coll : TRUE

\* /creategroup
create_group(ids, bodies) ==
    /\ \E data \in bodies :
         IF ~Truthy(Get(data, "project_name", NULL))
         THEN /\ resp' = [op |-> "creategroup", data |-> data, status |-> 400]
              /\ UNCHANGED groups
         ELSE /\ ids \ DOMAIN groups # {}
              /\ LET group_id == FreshId(ids, groups)
                 IN  /\ groups' = AddDoc(groups, group_id, group_data(data))
                     /\ resp' = [op |-> "creategroup", data |-> data, status |-> 200,
                                 groupId |-> group_id]
    /\ UNCHANGED <<users, questions, discussions, clock, th>>

\* Bodies of /joingroup and /leavegroup.  Group id g9 names no document.
PlainMemberBodies == {[user_id |-> u, group_id |-> g] : u \in UserIds, g \in GroupDocIds}

\* Bodies that are refused: no group_id, an empty user_id, no such group.
RefusedMemberBodies ==
    {[user_id |-> "u1"], [user_id |-> "", group_id |-> "g1"], [user_id |-> "u1", group_id |-> "g9"]}

MemberBodies == PlainMemberBodies \cup RefusedMemberBodies \cup {[group_id |-> "g1"]}

\* The bodies that name a user.
GateMemberBodies == PlainMemberBodies \cup RefusedMemberBodies

\* A join that adds nobody to a group that has a member.
join_members_capped(members, user_id) ==
    IF members # << >> THEN members ELSE ArrayUnion(members, user_id)

\* A join that appends without looking for the element.
join_members_append(members, user_id) == Append(members, user_id)

\* The members update of /joingroup.
join_members(members, user_id) == ArrayUnion(members, user_id)

\* A leave whose removal is never applied.
leave_members_kept(members, user_id) == members

\* The members update of /leavegroup.
leave_members(members, user_id) == ArrayRemove(members, user_id)

\* /joingroup.  The existence read and the update are one action: a group
\* document is never deleted, so what the read found still holds when the
\* update is applied.
join_group_api(bodies) ==
    /\ \E data \in bodies :
         LET user_id == Str(Get(data, "user_id", NULL))
             group_id == Get(data, "group_id", NULL)
         IN  IF user_id = "" \/ group_id = NULL
             THEN /\ resp' = [op |-> "joingroup", data |-> data, status |-> 400]
                  /\ UNCHANGED groups
             ELSE IF group_id \notin DOMAIN groups
             THEN /\ resp' = [op |-> "joingroup", data |-> data, status |-> 404]
                  /\ UNCHANGED groups
             ELSE /\ groups' = [groups EXCEPT ![group_id].members = join_members(@, user_id)]
                  /\ resp' = [op |-> "joingroup", data |-> data, status |-> 200]
    /\ UNCHANGED <<users, questions, discussions, clock, th>>

\* /leavegroup, one action for the same reason.
leave_group_api(bodies) ==
    /\ \E data \in bodies :
         LET user_id == Str(Get(data, "user_id", NULL))
             group_id == Get(data, "group_id", NULL)
         IN  IF user_id = "" \/ group_id = NULL
             THEN /\ resp' = [op |-> "leavegroup", data |-> data, status |-> 400]
                  /\ UNCHANGED groups
             ELSE IF group_id \notin DOMAIN groups
             THEN /\ resp' = [op |-> "leavegroup", data |-> data, status |-> 404]
                  /\ UNCHANGED groups
             ELSE /\ groups' = [groups EXCEPT ![group_id].members = leave_members(@, user_id)]
                  /\ resp' = [op |-> "leavegroup", data |-> data, status |-> 200]
    /\ UNCHANGED <<users, questions, discussions, clock, th>>

\* ============================================================= discussions
MaxMessages == 3
MaxClock == 2

\* The clock counts ticks of datetime.utcnow(); TicksPerSecond of them make
\* one second of int(timestamp()).
TicksPerSecond == 2

Second(t) == t \div TicksPerSecond

\* The times a call of datetime.utcnow() can return after a call that
\* returned `last`: that time or one up to `ahead` ticks after it.
Now(last, ahead) == {t \in last..MaxClock : t - last <= ahead}

\* Clock reads so close together that they give the same tick.
SameTick == 0

DiscussionDocIds == {"d1", "d2"}
CreateDiscussionBodies ==
    {[roomName |-> "room", groupId |-> g, userId |-> u] : g \in OneGroup, u \in UserIds}
    \cup {[roomName |-> "room", groupId |-> "g1"],
          [roomName |-> "room", groupId |-> "g9", userId |-> "u1"],
          [groupId |-> "g1", userId |-> "u1"], [roomName |-> "room", userId |-> "u1"],
          [roomName |-> "room", groupId |-> "", userId |-> "u1"]}

\* /creatediscussion up to the group read: 400, 404, 403, or on to the insert.
CreateDiscussionCheck(w, bodies) ==
    /\ th[w] = Idle
    /\ \E data \in bodies :
         LET room_name == Get(data, "roomName", NULL)
             group_id == Get(data, "groupId", NULL)
             user_id == Str(Get(data, "userId", NULL))
         IN  IF ~Truthy(room_name) \/ ~Truthy(group_id) \/ user_id = ""
             THEN /\ resp' = [op |-> "creatediscussion", data |-> data, status |-> 400]
                  /\ UNCHANGED th
             ELSE IF group_id \notin DOMAIN groups
             THEN /\ resp' = [op |-> "creatediscussion", data |-> data, status |-> 404]
                  /\ UNCHANGED th
             ELSE IF ~InSeq(user_id, groups[group_id].members)
             THEN /\ resp' = [op |-> "creatediscussion", data |-> data, status |-> 403]
                  /\ UNCHANGED th
             ELSE /\ th' = [th EXCEPT ![w] = [pc |-> "creatediscussion_insert", data |-> data,
                                               groupName |-> groups[group_id].project_name]]
                  /\ UNCHANGED resp
    /\ UNCHANGED <<users, groups, questions, discussions, clock>>

\* A discussion document stored without its groupId.
discussion_data_no_group(data, groupName, now) ==
    [roomName |-> data.roomName,
     createdBy |-> Str(Get(data, "userId", NULL)),
     participants |-> <<Str(Get(data, "userId", NULL))>>,
     messages |-> << >>,
     lastMessage |-> "",
     lastMessageTime |-> now,
     groupId |-> NULL,
     groupName |-> groupName]

\* A discussion document that names its group by the group's name.
discussion_data_group_name(data, groupName, now) ==
    [roomName |-> data.roomName,
     createdBy |-> Str(Get(data, "userId", NULL)),
     participants |-> <<Str(Get(data, "userId", NULL))>>,
     messages |-> << >>,
     lastMessage |-> "",
     lastMessageTime |-> now,
     groupId |-> groupName,
     groupName |-> groupName]

\* The document /creatediscussion stores.
discussion_data(data, groupName, now) ==
    [roomName |-> data.roomName,
     createdBy |-> Str(Get(data, "userId", NULL)),
     participants |-> <<Str(Get(data, "userId", NULL))>>,
     messages |-> << >>,
     lastMessage |-> "",
     lastMessageTime |-> now,
     groupId |-> data.groupId,
     groupName |-> groupName]

\* /creatediscussion from discussions_ref.add to the response.
CreateDiscussionInsert(w, ids, ahead) ==
    /\ th[w].pc = "creatediscussion_insert"
    /\ ids \ DOMAIN discussions # {}
    /\ \E now \in Now(clock, ahead) :
         LET discussion_id == FreshId(ids, discussions)
         IN  /\ clock' = now
             /\ discussions' = AddDoc(discussions, discussion_id,
                                      discussion_data(th[w].data, th[w].groupName, now))
             /\ resp' = [op |-> "creatediscussion", data |-> th[w].data, status |-> 200,
                         discussionId |-> discussion_id]
    /\ th' = [th EXCEPT ![w] = Idle]
    /\ UNCHANGED <<users, groups, questions>>

\* A gate that trusts the discussion's own participants list.
is_group_member_by_participants(discussion, user_id) == InSeq(user_id, discussion.participants)

\* The membership gate of /getmessages and /sendmessage: passed when the
\* discussion has no groupId or an empty one, or its group document exists
\* and lists user_id.
is_group_member(discussion, user_id) ==
    \/ ~Truthy(discussion.groupId)
    \/ /\ discussion.groupId \in DOMAIN groups
       /\ InSeq(user_id, groups[discussion.groupId].members)

\* Requests naming a discussion: discussion id d9 names no document.
MessageBodies ==
    {[discussionId |-> d, userId |-> u, content |-> "hi"] :
        d \in DiscussionDocIds, u \in UserIds}
    \cup {[discussionId |-> "d1", content |-> "hi"], [userId |-> "u1", content |-> "hi"],
          [discussionId |-> "d1", userId |-> "", content |-> "hi"],
          [discussionId |-> "d9", userId |-> "u1", content |-> "hi"]}

GetMessagesArgs ==
    {[discussionId |-> d, userId |-> u] : d \in DiscussionDocIds, u \in UserIds}
    \cup {[discussionId |-> "d1"], [discussionId |-> "d1", userId |-> ""],
          [discussionId |-> "d9", userId |-> "u1"]}

\* /getmessages/<discussion_id>.  The discussion read and the group read are
\* one action, taken at the group read: the discussion's existence and
\* groupId, which the first read supplies to the gate, never change.
get_messages(args) ==
    /\ \E data \in args :
         LET user_id == Str(Get(data, "userId", NULL))
         IN  resp' =
               IF user_id = "" \/ user_id = "None"
               THEN [op |-> "getmessages", data |-> data, status |-> 400]
               ELSE IF data.discussionId \notin DOMAIN discussions
               THEN [op |-> "getmessages", data |-> data, status |-> 404]
               ELSE IF ~is_group_member(discussions[data.discussionId], user_id)
               THEN [op |-> "getmessages", data |-> data, status |-> 403]
               ELSE [op |-> "getmessages", data |-> data, status |-> 200,
                     roomName |-> discussions[data.discussionId].roomName]
    /\ UNCHANGED <<users, groups, questions, discussions, clock, th>>

SendsInFlight(d) ==
    Cardinality({w \in Workers : th[w].pc = "send_update" /\ th[w].data.discussionId = d})

\* /sendmessage up to the group read: 400, 404, 403, or on to the update.
SendCheck(w, bodies) ==
    /\ th[w] = Idle
    /\ \E data \in bodies :
         LET discussion_id == Get(data, "discussionId", NULL)
             user_id == Str(Get(data, "userId", NULL))
         IN  IF discussion_id = NULL \/ user_id = ""
             THEN /\ resp' = [op |-> "sendmessage", data |-> data, status |-> 400]
                  /\ UNCHANGED th
             ELSE IF discussion_id \notin DOMAIN discussions
             THEN /\ resp' = [op |-> "sendmessage", data |-> data, status |-> 404]
                  /\ UNCHANGED th
             ELSE IF ~is_group_member(discussions[discussion_id], user_id)
             THEN /\ resp' = [op |-> "sendmessage", data |-> data, status |-> 403]
                  /\ UNCHANGED th
             ELSE /\ Len(discussions[discussion_id].messages) + SendsInFlight(discussion_id)
                       < MaxMessages
                  /\ th' = [th EXCEPT ![w] = [pc |-> "send_update", data |-> data]]
                  /\ UNCHANGED resp
    /\ UNCHANGED <<users, groups, questions, discussions, clock>>

\* The message /sendmessage builds, with its two reads of the clock.
message(data, now, later) ==
    [messageId |-> <<data.discussionId, "_msg_", Second(now)>>,
     userId |-> Str(Get(data, "userId", NULL)),
     content |-> data.content,
     timestamp |-> later]

\* The single-document update of /sendmessage.
send_update(discussion, data, now, later) ==
    [discussion EXCEPT
       !.messages = ArrayUnion(@, message(data, now, later)),
       !.lastMessage = data.content,
       !.lastMessageTime = later,
       !.participants = ArrayUnion(@, Str(Get(data, "userId", NULL)))]

\* /sendmessage from the message to the response.
SendUpdate(w, ahead, gap) ==
    /\ th[w].pc = "send_update"
    /\ \E now \in Now(clock, ahead) : \E later \in Now(now, gap) :
         /\ clock' = later
         /\ discussions' = [discussions EXCEPT ![th[w].data.discussionId] =
                               send_update(@, th[w].data, now, later)]
    /\ resp' = [op |-> "sendmessage", data |-> th[w].data, status |-> 200]
    /\ th' = [th EXCEPT ![w] = Idle]
    /\ UNCHANGED <<users, groups, questions>>

\* Messages of one discussion with two contents, sent by its group's creator.
OneDiscussion == {"d1"}
LastMessageBodies ==
    {[discussionId |-> "d1", userId |-> u, content |-> c] : u \in UserIds, c \in {"hi", "yo"}}

\* ===================================================================== Q&A
MaxAnswers == 2
MaxVotes == 1

OneQuestion == {"q1"}

\* text.strip() of a string given as a sequence of characters.
RECURSIVE Strip(_)
Strip(s) ==
    IF s = << >> THEN s
    ELSE IF Head(s) = " " THEN Strip(Tail(s))
    ELSE IF s[Len(s)] = " " THEN Strip(SubSeq(s, 1, Len(s) - 1))
    ELSE s

\* Titles: " how to tla " (10 characters once stripped) and " short ttl " (9).
TitleOk == <<" ", "h", "o", "w", " ", "t", "o", " ", "t", "l", "a", " ">>
TitleShort == <<" ", "s", "h", "o", "r", "t", " ", "t", "t", "l", " ">>

\* Answer contents: "hello" (5 characters) and " hey " (3 once stripped).
ContentOk == <<"h", "e", "l", "l", "o">>
ContentShort == <<" ", "h", "e", "y", " ">>

MinTitleLen == 10
MinAnswerLen == 5

PlainCreateQuestionBodies == {[title |-> TitleOk, userId |-> "u1"]}

RefusedCreateQuestionBodies ==
    {[title |-> TitleShort, userId |-> "u1"], [userId |-> "u1"], [title |-> << >>, userId |-> "u1"]}

\* firestore.SERVER_TIMESTAMP of a new document: the store's commit time,
\* later than that of every document committed to the collection before.
server_timestamp(coll) == Cardinality(DOMAIN coll)

\* The document /createquestion stores.
question_data(data) ==
    [userId |-> Str(Get(data, "userId", NULL)),
     title |-> Strip(data.title),
     tags |-> Get(data, "tags", << >>),
     answers |-> << >>,
     votes |-> 0,
     createdAt |-> server_timestamp(questions)]

\* The request bodies of /createquestion.
CreateQuestionBodies == PlainCreateQuestionBodies \cup RefusedCreateQuestionBodies

\* /createquestion
create_question(ids, bodies) ==
    /\ \E data \in bodies :
         IF Get(data, "title", << >>) = << >> \/ Len(Strip(data.title)) < MinTitleLen
         THEN /\ resp' = [op |-> "createquestion", data |-> data, status |-> 400]
              /\ UNCHANGED questions
         ELSE /\ ids \ DOMAIN questions # {}
              /\ LET question_id == FreshId(ids, questions)
                 IN  /\ questions' = AddDoc(questions, question_id, question_data(data))
                     /\ resp' = [op |-> "createquestion", data |-> data, status |-> 200,
                                 questionId |-> question_id]
    /\ UNCHANGED <<users, groups, discussions, clock, th>>

\* f"{question_id}_ans_{int(datetime.utcnow().timestamp())}": the formatted
\* string as the sequence of its parts, the empty string being << >>.
AnswerId(question_id, now) == <<question_id, "_ans_", Second(now)>>

\* The answer /addanswer builds, with its two reads of the clock.
answer(data, now, later) ==
    [answerId |-> AnswerId(data.questionId, now),
     userId |-> Str(Get(data, "userId", NULL)),
     content |-> Strip(data.content),
     votes |-> 0,
     accepted |-> FALSE,
     createdAt |-> later]

\* Question id q9 names no document.
AddAnswerBodies ==
    {[questionId |-> q, userId |-> "u2", content |-> ContentOk] : q \in OneQuestion}
    \cup {[questionId |-> "q1", userId |-> "u2", content |-> ContentShort],
          [userId |-> "u2", content |-> ContentOk],
          [questionId |-> "q9", userId |-> "u2", content |-> ContentOk]}

\* /addanswer: one update; on a missing document the update raises and the
\* handler answers 500.
add_answer(bodies, ahead, gap) ==
    /\ \E data \in bodies :
         LET question_id == Get(data, "questionId", NULL)
             content == Strip(Get(data, "content", << >>))
         IN  IF question_id = NULL
             THEN /\ resp' = [op |-> "addanswer", data |-> data, status |-> 400]
                  /\ UNCHANGED <<questions, clock>>
             ELSE IF content = << >> \/ Len(content) < MinAnswerLen
             THEN /\ resp' = [op |-> "addanswer", data |-> data, status |-> 400]
                  /\ UNCHANGED <<questions, clock>>
             ELSE IF question_id \notin DOMAIN questions
             THEN /\ resp' = [op |-> "addanswer", data |-> data, status |-> 500]
                  /\ UNCHANGED <<questions, clock>>
             ELSE /\ Len(questions[question_id].answers) < MaxAnswers
                  /\ \E now \in Now(clock, ahead) : \E later \in Now(now, gap) :
                       /\ clock' = later
                       /\ questions' = [questions EXCEPT ![question_id].answers =
                                           ArrayUnion(@, answer(data, now, later))]
                  /\ resp' = [op |-> "addanswer", data |-> data, status |-> 200]
    /\ UNCHANGED <<users, groups, discussions, th>>

\* The answer ids requests name: those a question's answers can have.
AnswerIds == {AnswerId(q, t) : q \in OneQuestion, t \in 0..MaxClock}

AcceptBodies ==
    {[questionId |-> q, answerId |-> a, userId |-> u] :
        q \in OneQuestion, a \in AnswerIds, u \in UserIds}
    \cup {[questionId |-> "q1", answerId |-> AnswerId("q1", 0)],
          [questionId |-> "q1", userId |-> "u1"],
          [answerId |-> AnswerId("q1", 0), userId |-> "u1"],
          [questionId |-> "q9", answerId |-> AnswerId("q1", 0), userId |-> "u1"]}

\* An author check that lets every requester through.
is_question_author_anyone(question, user_id) == TRUE

\* The requester is the user the question document names as its author.
is_question_author(question, user_id) == question.userId = user_id

\* /acceptanswer up to the question read: 400, 404, 403, or on to the update
\* with the answers array it read.
AcceptRead(w, bodies) ==
    /\ th[w] = Idle
    /\ \E data \in bodies :
         LET question_id == Get(data, "questionId", NULL)
             answer_id == Get(data, "answerId", << >>)
             user_id == Str(Get(data, "userId", NULL))
         IN  IF question_id = NULL \/ answer_id = << >> \/ user_id = ""
             THEN /\ resp' = [op |-> "acceptanswer", data |-> data, status |-> 400]
                  /\ UNCHANGED th
             ELSE IF question_id \notin DOMAIN questions
             THEN /\ resp' = [op |-> "acceptanswer", data |-> data, status |-> 404]
                  /\ UNCHANGED th
             ELSE IF ~is_question_author(questions[question_id], user_id)
             THEN /\ resp' = [op |-> "acceptanswer", data |-> data, status |-> 403]
                  /\ UNCHANGED th
             ELSE /\ th' = [th EXCEPT ![w] = [pc |-> "accept_update", data |-> data,
                                               answers |-> questions[question_id].answers]]
                  /\ UNCHANGED resp
    /\ UNCHANGED <<users, groups, questions, discussions, clock>>

\* The loop of /acceptanswer over the answers it read.
accept_in(answers, answer_id) ==
    [i \in 1..Len(answers) |->
        [answers[i] EXCEPT !.accepted = (answers[i].answerId = answer_id)]]

\* /acceptanswer from the loop to the response: the whole array is written.
AcceptUpdate(w) ==
    /\ th[w].pc = "accept_update"
    /\ questions' = [questions EXCEPT ![th[w].data.questionId].answers =
                        accept_in(th[w].answers, th[w].data.answerId)]
    /\ resp' = [op |-> "acceptanswer", data |-> th[w].data, status |-> 200]
    /\ th' = [th EXCEPT ![w] = Idle]
    /\ UNCHANGED <<users, groups, discussions, clock>>

\* One voter's requests: an up-vote for the answer given in the first second.
UpVoteBodies == {[questionId |-> "q1", answerId |-> AnswerId("q1", 0), voteType |-> "up"]}

\* Another voter's requests: the same up-vote, and refused ones.
VoteAnswerBodies ==
    UpVoteBodies
    \cup {[questionId |-> "q1", answerId |-> AnswerId("q1", 0)],
          [questionId |-> "q1", answerId |-> AnswerId("q1", 0), voteType |-> "upp"],
          [questionId |-> "q9", answerId |-> AnswerId("q1", 0), voteType |-> "up"]}

\* The index of the first answer with the id, or 0.
FirstWithId(answers, answer_id) ==
    IF \E i \in 1..Len(answers) : answers[i].answerId = answer_id
    THEN CHOOSE i \in 1..Len(answers) :
            /\ answers[i].answerId = answer_id
            /\ \A j \in 1..(i - 1) : answers[j].answerId # answer_id
    ELSE 0

\* A loop without its break: every answer with the id gets the increment.
vote_in_every(answers, answer_id, increment) ==
    [i \in 1..Len(answers) |->
        IF answers[i].answerId = answer_id
        THEN [answers[i] EXCEPT !.votes = @ + increment]
        ELSE answers[i]]

\* The loop of /voteanswer: the first answer with the id gets the increment.
vote_in(answers, answer_id, increment) ==
    [i \in 1..Len(answers) |->
        IF i = FirstWithId(answers, answer_id)
        THEN [answers[i] EXCEPT !.votes = @ + increment]
        ELSE answers[i]]

\* /voteanswer up to the question read.
VoteRead(w, bodies) ==
    /\ th[w] = Idle
    /\ \E data \in bodies :
         LET question_id == Get(data, "questionId", NULL)
             answer_id == Get(data, "answerId", << >>)
             vote_type == Get(data, "voteType", NULL)
         IN  IF question_id = NULL \/ answer_id = << >> \/ vote_type = NULL
             THEN /\ resp' = [op |-> "voteanswer", data |-> data, status |-> 400]
                  /\ UNCHANGED th
             ELSE IF vote_type \notin {"up", "down"}
             THEN /\ resp' = [op |-> "voteanswer", data |-> data, status |-> 400]
                  /\ UNCHANGED th
             ELSE IF question_id \notin DOMAIN questions
             THEN /\ resp' = [op |-> "voteanswer", data |-> data, status |-> 404]
                  /\ UNCHANGED th
             ELSE /\ LET i == FirstWithId(questions[question_id].answers, answer_id)
                         votes == questions[question_id].answers[i].votes
                     IN  i # 0 => IF vote_type = "up" THEN votes < MaxVotes ELSE votes > -MaxVotes
                  /\ th' = [th EXCEPT ![w] = [pc |-> "vote_update", data |-> data,
                                               answers |-> questions[question_id].answers]]
                  /\ UNCHANGED resp
    /\ UNCHANGED <<users, groups, questions, discussions, clock>>

\* /voteanswer from the loop to the response: the whole array is written.
VoteUpdate(w) ==
    /\ th[w].pc = "vote_update"
    /\ questions' = [questions EXCEPT ![th[w].data.questionId].answers =
                        vote_in(th[w].answers, th[w].data.answerId,
                                IF th[w].data.voteType = "up" THEN 1 ELSE -1)]
    /\ resp' = [op |-> "voteanswer", data |-> th[w].data, status |-> 200]
    /\ th' = [th EXCEPT ![w] = Idle]
    /\ UNCHANGED <<users, groups, discussions, clock>>

\* ------------------------------------------------ /votequestion, /getquestions
QuestionDocIds == {"q1", "q2", "q3"}

\* Tags: "tla", stored lowercased as the search expects.
TagTla == <<"t", "l", "a">>

\* /createquestion bodies with and without tags, and a refused one.
ListedCreateQuestionBodies ==
    {[title |-> TitleOk, userId |-> "u1"],
     [title |-> TitleOk, userId |-> "u1", tags |-> <<TagTla>>],
     [title |-> TitleShort, userId |-> "u1"]}

\* Bodies of /votequestion: "up", "down" and a typo for two of the
\* questions and for q9, which names no document, and refused ones.
VoteQuestionBodies ==
    {[questionId |-> q, voteType |-> v] :
        q \in {"q1", "q2", "q9"}, v \in {"up", "down", "upp"}}
    \cup {[questionId |-> "q1"], [voteType |-> "up"], [questionId |-> "q1", voteType |-> ""],
          [questionId |-> "", voteType |-> "up"]}

\* An update that writes n over the field.
Increment_overwrite(value, n) == n

\* firestore.Increment(n) on a numeric field.
Increment(value, n) == value + n

\* /votequestion: one update; on a missing document the update raises and
\* the handler answers 500.
vote_question(bodies) ==
    /\ \E data \in bodies :
         LET question_id == Get(data, "questionId", NULL)
             vote_type == Get(data, "voteType", NULL)
             increment == IF vote_type = "up" THEN 1 ELSE -1
         IN  IF ~Truthy(question_id) \/ ~Truthy(vote_type)
             THEN /\ resp' = [op |-> "votequestion", data |-> data, status |-> 400]
                  /\ UNCHANGED questions
             ELSE IF question_id \notin DOMAIN questions
             THEN /\ resp' = [op |-> "votequestion", data |-> data, status |-> 500]
                  /\ UNCHANGED questions
             ELSE /\ questions[question_id].votes + increment \in -MaxVotes..MaxVotes
                  /\ questions' = [questions EXCEPT ![question_id].votes = Increment(@, increment)]
                  /\ resp' = [op |-> "votequestion", data |-> data, status |-> 200]
    /\ UNCHANGED <<users, groups, discussions, clock, th>>

\* str.lower() on the letters, character by character.
LowerOf ==
    [A |-> "a", B |-> "b", C |-> "c", D |-> "d", E |-> "e", F |-> "f", G |-> "g",
     H |-> "h", I |-> "i", J |-> "j", K |-> "k", L |-> "l", M |-> "m", N |-> "n",
     O |-> "o", P |-> "p", Q |-> "q", R |-> "r", S |-> "s", T |-> "t", U |-> "u",
     V |-> "v", W |-> "w", X |-> "x", Y |-> "y", Z |-> "z"]

Lower(s) == [i \in 1..Len(s) |-> IF s[i] \in DOMAIN LowerOf THEN LowerOf[s[i]] ELSE s[i]]

\* s.replace('#', '')
RemoveHash(s) == SelectSeq(s, LAMBDA c : c # "#")

\* int(s) of a query argument: an optional sign and digits, or None when
\* int() raises ValueError.
int(s) ==
    LET digits == IF s # << >> /\ Head(s) \in {"-", "+"} THEN Tail(s) ELSE s
    IN  IF digits = << >> \/ \E i \in 1..Len(digits) : digits[i] \notin Digits THEN None
        ELSE IF Head(s) = "-" THEN Some(-ParseInt(digits)) ELSE Some(ParseInt(digits))

Max(a, b) == IF a >= b THEN a ELSE b
Min(a, b) == IF a <= b THEN a ELSE b

\* arr[a:b] of Python for 0 <= a.
Slice(arr, a, b) == SubSeq(arr, a + 1, Min(b, Len(arr)))

\* Filters: "all", "most-voted", "MOST-VOTED".
All == <<"a", "l", "l">>
MostVoted == <<"m", "o", "s", "t", "-", "v", "o", "t", "e", "d">>
MostVotedShouted == <<"M", "O", "S", "T", "-", "V", "O", "T", "E", "D">>

MaxLimit == 100

\* Document ids in the order of __name__.
DocRank(id) == CASE id = "q1" -> 1 [] id = "q2" -> 2 [] id = "q3" -> 3

\* query.order_by(field, DESCENDING).stream(): the documents by falling
\* field value, those of equal value by falling __name__.
RECURSIVE OrderByDescending(_, _)
OrderByDescending(ids, field) ==
    IF ids = {} THEN << >>
    ELSE LET first == CHOOSE x \in ids : \A y \in ids :
                         \/ questions[x][field] > questions[y][field]
                         \/ /\ questions[x][field] = questions[y][field]
                            /\ DocRank(x) >= DocRank(y)
         IN  <<first>> \o OrderByDescending(ids \ {first}, field)

\* The query of /getquestions: the documents whose tags contain the search
\* term, if one is given, in the order of the filter.
all_questions(filter_type, search) ==
    LET search_term == Lower(Strip(RemoveHash(search)))
        hits == IF search # << >>
                THEN {q \in DOMAIN questions : InSeq(search_term, questions[q].tags)}
                ELSE DOMAIN questions
    IN  OrderByDescending(hits, IF filter_type = MostVoted THEN "votes" ELSE "createdAt")

\* One answer as /getquestions returns it.
formatted_answer(a) ==
    [answerId |-> a.answerId, userId |-> a.userId, userName |-> "Anonymous",
     userPhoto |-> "", content |-> a.content, votes |-> a.votes,
     accepted |-> a.accepted, createdAt |-> a.createdAt]

\* One question as /getquestions returns it.
question_entry(id) ==
    LET q == questions[id]
    IN  [questionId |-> id, userId |-> q.userId, title |-> q.title, tags |-> q.tags,
         answers |-> [i \in 1..Len(q.answers) |-> formatted_answer(q.answers[i])],
         votes |-> q.votes, createdAt |-> q.createdAt]

skip_of(page, limit) == (page - 1) * limit

\* A page count rounded down.
total_pages_floor(total_count, limit) ==
    IF total_count > 0 THEN total_count \div limit ELSE 1

total_pages_of(total_count, limit) ==
    IF total_count > 0 THEN (total_count + limit - 1) \div limit ELSE 1

\* The response of /getquestions.
get_questions_response(args) ==
    LET filter_type == Lower(Get(args, "filter", All))
        search == Strip(Get(args, "search", << >>))
        page_arg == int(Get(args, "page", <<"1">>))
        limit_arg == int(Get(args, "limit", <<"5">>))
    IN  IF page_arg = None \/ limit_arg = None
        THEN [op |-> "getquestions", args |-> args, status |-> 500]
        ELSE LET page == Max(1, page_arg[1])
                 limit == Min(MaxLimit, Max(1, limit_arg[1]))
                 skip == skip_of(page, limit)
                 all == all_questions(filter_type, search)
                 total_count == Len(all)
                 paginated_questions == Slice(all, skip, skip + limit)
             IN  [op |-> "getquestions", args |-> args, status |-> 200,
                  questions |-> [i \in 1..Len(paginated_questions) |->
                                    question_entry(paginated_questions[i])],
                  pagination |-> [currentPage |-> page,
                                  totalPages |-> total_pages_of(total_count, limit),
                                  totalItems |-> total_count,
                                  itemsPerPage |-> limit]]

\* Query arguments of /getquestions: pages "-1", "1", "2", "3" of two
\* questions each, pages of one each for "0" and for "1", one page of 100
\* for "101", the default page and limit, a page that is no number, the
\* most voted first, and a search for "#TLA ".
SearchTla == <<"#", "T", "L", "A", " ">>

GetQuestionsArgs ==
    {[page |-> p, limit |-> <<"2">>] : p \in {<<"-", "1">>, <<"1">>, <<"2">>, <<"3">>}}
    \cup {[page |-> <<"3">>, limit |-> <<"0">>], [page |-> <<"0">>, limit |-> <<"1">>],
          [limit |-> <<"1", "0", "1">>], [filter |-> All], [page |-> <<"x">>]}
    \cup {[page |-> p, limit |-> <<"2">>, filter |-> MostVoted] : p \in {<<"1">>, <<"2">>}}
    \cup {[page |-> p, limit |-> <<"1">>, search |-> SearchTla] : p \in {<<"1">>, <<"2">>}}
    \cup {[filter |-> MostVotedShouted, search |-> SearchTla]}

\* /getquestions
get_questions(args_set) ==
    /\ \E args \in args_set : resp' = get_questions_response(args)
    /\ UNCHANGED <<users, groups, questions, discussions, clock, th>>

\* ------------------------------------------- groups, discussions: claims
Elems(arr) == {arr[i] : i \in 1..Len(arr)}

NoDuplicates(arr) == \A i, j \in 1..Len(arr) : i # j => arr[i] # arr[j]

\* The user id a request names, as the handlers read it.
Requester(data, key) == IF key \in DOMAIN data THEN Str(data[key]) ELSE "None"

\* u is listed in the members of the group of discussion d.
MemberOfGroupOf(d, u) ==
    /\ discussions[d].groupId \in DOMAIN groups
    /\ u \in Elems(groups[discussions[d].groupId].members)

\* A request that names an existing discussion and a user id.
NamesDiscussion(data) ==
    /\ "discussionId" \in DOMAIN data /\ data.discussionId \in DOMAIN discussions
    /\ "userId" \in DOMAIN data /\ data.userId # ""

\* C4: a sendMessage that names an existing discussion and a user id not in
\* the members of the discussion's group (read when the handler reads the
\* group document) is answered 403 and leaves every discussion unchanged: its
\* messages, lastMessage, lastMessageTime and participants; and no
\* sendMessage goes on to its update for such a user.
C4_SendByNonMember ==
    [][ /\ (AnsweredAtOnce("sendmessage") /\ NamesDiscussion(resp'.data)
              /\ ~MemberOfGroupOf(resp'.data.discussionId, Requester(resp'.data, "userId")))
           => (resp'.status = 403 /\ discussions' = discussions)
        /\ (AnsweredAtOnce("sendmessage") /\ resp'.status = 403)
           => discussions' = discussions
        /\ \A w \in Workers :
             (th[w] = Idle /\ th'[w].pc = "send_update")
             => MemberOfGroupOf(th'[w].data.discussionId, Requester(th'[w].data, "userId")) ]_vars

\* A 403 to a participant of a discussion that holds a message: a user who
\* was a member and is one no longer.
C4_Witness ==
    /\ resp.op = "sendmessage" /\ resp.status = 403
    /\ resp.data.discussionId \in DOMAIN discussions
    /\ "userId" \in DOMAIN resp.data
    /\ resp.data.userId \in Elems(discussions[resp.data.discussionId].participants)
    /\ discussions[resp.data.discussionId].messages # << >>

IsMemberResponse(r, op, u, g) ==
    /\ r.op = op /\ r.status = 200
    /\ Requester(r.data, "user_id") = u /\ r.data.group_id = g

\* C5: membership is read from the live group document by every getMessages
\* and sendMessage.  A completed leaveGroup of u from g leaves u out of g's
\* members, and u enters them again only by a completed joinGroup of u to g;
\* a completed joinGroup leaves u in them, and u drops out only by a
\* completed leaveGroup of u from g.  A getMessages or sendMessage by u on a
\* discussion of g is answered 403 exactly when u is not in g's members at
\* the handler's group read; otherwise getMessages is answered 200 and
\* sendMessage goes on to its update, which is answered 200.
C5_LiveMembership ==
    [][ /\ \A g \in DOMAIN groups : \A u \in UserIds \cup {"None"} :
             /\ (resp' # resp /\ IsMemberResponse(resp', "leavegroup", u, g))
                => u \notin Elems(groups'[g].members)
             /\ (resp' # resp /\ IsMemberResponse(resp', "joingroup", u, g))
                => u \in Elems(groups'[g].members)
             /\ (u \notin Elems(groups[g].members) /\ u \in Elems(groups'[g].members))
                => IsMemberResponse(resp', "joingroup", u, g)
             /\ (u \in Elems(groups[g].members) /\ u \notin Elems(groups'[g].members))
                => IsMemberResponse(resp', "leavegroup", u, g)
        /\ (resp' # resp /\ resp'.op = "getmessages" /\ NamesDiscussion(resp'.data))
           => resp'.status =
                (IF MemberOfGroupOf(resp'.data.discussionId, Requester(resp'.data, "userId"))
                 THEN 200 ELSE 403)
        /\ (AnsweredAtOnce("sendmessage") /\ NamesDiscussion(resp'.data))
           => /\ resp'.status = 403
              /\ ~MemberOfGroupOf(resp'.data.discussionId, Requester(resp'.data, "userId"))
        /\ \A w \in Workers :
             /\ (th[w] = Idle /\ th'[w].pc = "send_update")
                => MemberOfGroupOf(th'[w].data.discussionId, Requester(th'[w].data, "userId"))
             /\ (th[w].pc = "send_update" /\ th'[w] = Idle)
                => (resp'.op = "sendmessage" /\ resp'.status = 200) ]_vars

\* A getMessages refused to a participant: a user who has left the group.
C5_Witness ==
    /\ resp.op = "getmessages" /\ resp.status = 403
    /\ resp.data.discussionId \in DOMAIN discussions
    /\ "userId" \in DOMAIN resp.data
    /\ resp.data.userId \in Elems(discussions[resp.data.discussionId].participants)

\* C6: no members list holds a user id twice, and a successful joinGroup of
\* a user already in the members leaves the list as it was; any successful
\* joinGroup leaves the members those before it and the user.
C6_MembersNoDuplicates ==
    /\ [](\A g \in DOMAIN groups : NoDuplicates(groups[g].members))
    /\ [][ \A g \in DOMAIN groups : \A u \in UserIds \cup {"None"} :
             (resp' # resp /\ IsMemberResponse(resp', "joingroup", u, g))
             => /\ Elems(groups'[g].members) = Elems(groups[g].members) \cup {u}
                /\ u \in Elems(groups[g].members) => groups' = groups ]_vars

\* A successful join of a user who is listed before the last member: the
\* join added nothing.
C6_Witness ==
    \E g \in DOMAIN groups : \E u \in UserIds :
        /\ IsMemberResponse(resp, "joingroup", u, g)
        /\ Len(groups[g].members) >= 2
        /\ groups[g].members[1] = u

\* The field is absent from the request, null or empty.
Missing(data, key) == key \notin DOMAIN data \/ data[key] = NULL \/ data[key] = ""

\* What a joinGroup or leaveGroup request is to do, user_id being the user
\* id it names: 400 without user_id or group_id, 404 for a group_id with no
\* document, both without a change to any group; otherwise 200 with the
\* user added to (join) or removed from (leave) the members of that group
\* and no other group changed.
JoinLeaveDone(r, user_id_missing) ==
    IF user_id_missing \/ Missing(r.data, "group_id")
    THEN r.status = 400 /\ groups' = groups
    ELSE IF r.data.group_id \notin DOMAIN groups
    THEN r.status = 404 /\ groups' = groups
    ELSE LET g == r.data.group_id
             u == Requester(r.data, "user_id")
         IN  /\ r.status = 200
             /\ DOMAIN groups' = DOMAIN groups
             /\ Elems(groups'[g].members) =
                  (IF r.op = "joingroup" THEN Elems(groups[g].members) \cup {u}
                   ELSE Elems(groups[g].members) \ {u})
             /\ \A o \in DOMAIN groups : o # g => groups'[o] = groups[o]

\* C16: every joinGroup and leaveGroup request does the above, a request
\* without user_id being answered 400; and the members of a group change in
\* no other step.
C16_JoinLeave ==
    [][ /\ (resp' # resp /\ resp'.op \in {"joingroup", "leavegroup"})
           => JoinLeaveDone(resp', Missing(resp'.data, "user_id"))
        /\ \A g \in DOMAIN groups :
             groups'[g].members # groups[g].members
             => resp'.op \in {"joingroup", "leavegroup"} ]_vars

\* A createDiscussion request with a room name, a group id and a user id.
NamesGroup(data) ==
    /\ ~Missing(data, "roomName") /\ ~Missing(data, "groupId")
    /\ "userId" \in DOMAIN data /\ data.userId # ""

\* C18: a createDiscussion that names a group with no document is answered
\* 404, one by a user not in the members of the group (read when the handler
\* reads the group document) is answered 403, and neither creates a
\* discussion; a request goes on to its insert only for a member of an
\* existing group; the insert is answered 200 and adds one discussion with
\* participants = [userId], no messages, an empty lastMessage and the
\* groupId of the request, leaving the other discussions as they are; and
\* no other step adds a discussion.
C18_CreateDiscussion ==
    [][ /\ (AnsweredAtOnce("creatediscussion") /\ NamesGroup(resp'.data))
           => /\ resp'.status =
                   (IF resp'.data.groupId \notin DOMAIN groups THEN 404 ELSE 403)
              /\ resp'.data.groupId \in DOMAIN groups
                   => Requester(resp'.data, "userId")
                        \notin Elems(groups[resp'.data.groupId].members)
              /\ discussions' = discussions
        /\ \A w \in Workers :
             /\ (th[w] = Idle /\ th'[w].pc = "creatediscussion_insert")
                => /\ th'[w].data.groupId \in DOMAIN groups
                   /\ Requester(th'[w].data, "userId")
                        \in Elems(groups[th'[w].data.groupId].members)
                   /\ discussions' = discussions
             /\ (th[w].pc = "creatediscussion_insert" /\ th'[w] = Idle)
                => /\ resp'.op = "creatediscussion" /\ resp'.status = 200
                   /\ \E d \in DOMAIN discussions' \ DOMAIN discussions :
                        /\ DOMAIN discussions' = DOMAIN discussions \cup {d}
                        /\ resp'.discussionId = d
                        /\ discussions'[d].participants = <<Requester(th[w].data, "userId")>>
                        /\ discussions'[d].messages = << >>
                        /\ discussions'[d].lastMessage = ""
                        /\ discussions'[d].groupId = th[w].data.groupId
                        /\ \A o \in DOMAIN discussions : discussions'[o] = discussions[o]
        /\ DOMAIN discussions' # DOMAIN discussions
           => \E w \in Workers : th[w].pc = "creatediscussion_insert" /\ th'[w] = Idle ]_vars

\* A 403 for the user who created a discussion of the group before leaving
\* it.
C18_Witness ==
    /\ resp.op = "creatediscussion" /\ resp.status = 403
    /\ NamesGroup(resp.data)
    /\ resp.data.groupId \in DOMAIN groups
    /\ \E d \in DOMAIN discussions :
         /\ discussions[d].groupId = resp.data.groupId
         /\ discussions[d].createdBy = resp.data.userId

\* What listGroups reports of group g.
Listed(g) == group_entry(groups[g], "")

\* C19: a joinGroup that names a user and an existing group is answered 200
\* and leaves the user in the group's members, one more than before when the
\* user was not among them, also when listGroups reports the group as
\* isFull: the group then has more members than maxMembers.
C19_JoinIgnoresCapacity ==
    [][ (resp' # resp /\ resp'.op = "joingroup"
           /\ ~Missing(resp'.data, "user_id") /\ ~Missing(resp'.data, "group_id")
           /\ resp'.data.group_id \in DOMAIN groups)
        => LET g == resp'.data.group_id
               u == resp'.data.user_id
           IN  /\ resp'.status = 200
               /\ u \in Elems(groups'[g].members)
               /\ u \notin Elems(groups[g].members)
                    => Len(groups'[g].members) = Len(groups[g].members) + 1
               /\ (Listed(g).isFull /\ u \notin Elems(groups[g].members))
                    => group_entry(groups'[g], "").memberCount
                         > group_entry(groups'[g], "").maxMembers[1] ]_vars

\* A joinGroup answered 200 has added its user, as the last member, to a
\* group that was full without that user: listGroups now reports more
\* members than maxMembers.
C19_Witness ==
    /\ resp.op = "joingroup" /\ resp.status = 200
    /\ LET members == groups[resp.data.group_id].members
           entry == Listed(resp.data.group_id)
       IN  /\ members[Len(members)] = resp.data.user_id
           /\ entry.isFull
           /\ entry.memberCount - 1 >= entry.maxMembers[1]

\* C20: whenever a sendMessage writes its message to the store, its sender
\* is in the members of the discussion's group at that moment; and the
\* messages of a discussion change in no other step.
C20_SenderIsMemberAtWrite ==
    [][ /\ \A w \in Workers :
             (th[w].pc = "send_update" /\ th'[w] = Idle)
             => MemberOfGroupOf(th[w].data.discussionId, Requester(th[w].data, "userId"))
        /\ \A d \in DOMAIN discussions :
             discussions'[d].messages # discussions[d].messages
             => \E w \in Workers :
                  th[w].pc = "send_update" /\ th'[w] = Idle /\ th[w].data.discussionId = d ]_vars

\* The branch of /getmessages and /sendmessage that asks no group: taken for
\* a discussion whose groupId is absent or empty.
SkipsMembershipCheck(d) == ~Truthy(discussions[d].groupId)

\* C21: every discussion document has a non-empty groupId that names an
\* existing group document, so no discussion is served by the branch of
\* getMessages and sendMessage that skips the membership check.
C21_DiscussionNamesGroup ==
    \A d \in DOMAIN discussions :
        /\ ~SkipsMembershipCheck(d)
        /\ discussions[d].groupId \in DOMAIN groups

\* A discussion whose creator has left its group, and the creator's
\* getMessages on it refused by the membership check.
C21_Witness ==
    /\ resp.op = "getmessages"
    /\ resp.status = 403
    /\ resp.data.discussionId \in DOMAIN discussions
    /\ LET discussion == discussions[resp.data.discussionId]
       IN  /\ discussion.createdBy = resp.data.userId
           /\ discussion.groupId \in DOMAIN groups
           /\ groups[discussion.groupId].members = << >>

\* C22: in every state, a discussion with messages has as lastMessage the
\* content of the last element of its messages.
C22_LastMessageIsLast ==
    \A d \in DOMAIN discussions :
        LET messages == discussions[d].messages
        IN  messages # << >> => discussions[d].lastMessage = messages[Len(messages)].content

RECURSIVE Pow10(_)
Pow10(n) == IF n = 0 THEN 1 ELSE 10 * Pow10(n - 1)

\* The number written by the first digit run of s, or None.
FirstNumber(s) ==
    LET digitAt == {i \in 1..Len(s) : s[i] \in Digits}
    IN  IF digitAt = {} THEN None
        ELSE LET i == CHOOSE x \in digitAt : \A y \in digitAt : x <= y
                 j == CHOOSE x \in i..Len(s) :
                        /\ \A k \in i..x : k \in digitAt
                        /\ x + 1 \notin digitAt
                 val[k \in i..j] == DigitVal(s[k]) * Pow10(j - k) + (IF k = j THEN 0 ELSE val[k + 1])
             IN  Some(val[i])

\* C10: in every listGroups response, each group's maxMembers is the number
\* of the first digit run of preferred_team_size (None without one), and
\* isFull is true exactly when maxMembers is known and
\* memberCount >= maxMembers.
C10_ListGroups ==
    resp.op = "getavailablegroups" =>
        \A g \in DOMAIN resp.groups :
            LET e == resp.groups[g]
                want == FirstNumber(e.preferredteamsize)
            IN  /\ e.memberCount = Len(e.members)
                /\ e.maxMembers = want
                /\ e.isFull = (want # None /\ e.memberCount >= want[1])

\* ----------------------------------------------------------- Q&A: claims
\* The positions of the accepted answers of an answers array.
Accepted(answers) == {i \in 1..Len(answers) : answers[i].accepted}

HasAnswer(answers, answer_id) == \E i \in 1..Len(answers) : answers[i].answerId = answer_id

\* C1: in every reachable state each question has at most one embedded
\* answer whose accepted flag is true.
C1_AtMostOneAccepted ==
    \A q \in DOMAIN questions : Cardinality(Accepted(questions[q].answers)) <= 1

\* C2: when an acceptAnswer by the question's author for an answer id of the
\* array it read returns success, the stored answers array has one answer
\* with that id, accepted, and every other answer not accepted.
C2_AcceptResult ==
    [][ \A w \in Workers :
          (th[w].pc = "accept_update" /\ th'[w] = Idle
             /\ HasAnswer(th[w].answers, th[w].data.answerId))
          => LET answers == questions'[th[w].data.questionId].answers
             IN  /\ resp'.op = "acceptanswer" /\ resp'.status = 200
                 /\ \E i \in 1..Len(answers) :
                      /\ answers[i].answerId = th[w].data.answerId
                      /\ Accepted(answers) = {i} ]_vars

\* A request that names a question, an answer and a user.
NamesAnswer(data) ==
    /\ "questionId" \in DOMAIN data /\ "answerId" \in DOMAIN data
    /\ "userId" \in DOMAIN data /\ data.userId # ""

\* C3: an acceptAnswer that names a question with no document is answered
\* 404, one by a user other than the stored author of the question is
\* answered 403, and either leaves every document unchanged, the question's
\* answers array with its accepted flags and vote counts included; no
\* acceptAnswer goes on to its update unless the requester is the author.
C3_AcceptRefused ==
    [][ /\ (AnsweredAtOnce("acceptanswer") /\ NamesAnswer(resp'.data))
           => /\ resp'.status =
                   (IF resp'.data.questionId \notin DOMAIN questions THEN 404 ELSE 403)
              /\ resp'.data.questionId \in DOMAIN questions
                   => questions[resp'.data.questionId].userId
                         # Requester(resp'.data, "userId")
              /\ questions' = questions
              /\ UNCHANGED <<users, groups, discussions>>
        /\ \A w \in Workers :
             (th[w] = Idle /\ th'[w].pc = "accept_update")
             => /\ th'[w].data.questionId \in DOMAIN questions
                /\ questions[th'[w].data.questionId].userId
                      = Requester(th'[w].data, "userId")
                /\ questions' = questions ]_vars

\* A 403 for a request to accept another answer of a question that has an
\* accepted answer with a vote.
C3_Witness ==
    /\ resp.op = "acceptanswer" /\ resp.status = 403
    /\ resp.data.questionId \in DOMAIN questions
    /\ LET answers == questions[resp.data.questionId].answers
       IN  /\ HasAnswer(answers, resp.data.answerId)
           /\ \E i \in Accepted(answers) :
                answers[i].answerId # resp.data.answerId /\ answers[i].votes > 0

\* The numbers a /getquestions request asks for: page and limit as written,
\* 1 and 5 when absent.
Asked(args, key, default) == IF key \in DOMAIN args THEN int(args[key]) ELSE Some(default)

AsksNumbers(args) == Asked(args, "page", 1) # None /\ Asked(args, "limit", 5) # None

\* The page and the limit after flooring and clamping.
PageOf(args) == LET p == Asked(args, "page", 1)[1] IN IF p < 1 THEN 1 ELSE p

LimitOf(args) ==
    LET l == Asked(args, "limit", 5)[1] IN IF l < 1 THEN 1 ELSE IF l > 100 THEN 100 ELSE l

\* The ordered result of the query of the request: the matching questions.
OrderedResult(args) ==
    all_questions(Lower(Get(args, "filter", All)), Strip(Get(args, "search", << >>)))

\* ceil(n / l), at least 1: the least k >= 1 with k * l >= n.
CeilDiv(n, l) == CHOOSE k \in 1..Max(1, n) : k * l >= n /\ (k > 1 => (k - 1) * l < n)

\* The request with its page replaced by p, for p of one digit.
WithPage(args, p) ==
    [k \in DOMAIN args \cup {"page"} |->
        IF k = "page" THEN <<CHOOSE c \in Digits : DigitVal(c) = p>> ELSE args[k]]

\* The ids of the questions a response lists, in its order.
ListedIds(r) == [i \in 1..Len(r.questions) |-> r.questions[i].questionId]

\* The response r to a request for page p of l questions each has the
\* items at positions (p-1)*l up to min(p*l, N) of the ordered result and
\* the pagination block of N, l and p.
IsPage(r, args) ==
    LET p == PageOf(args)
        l == LimitOf(args)
        ordered == OrderedResult(args)
        N == Len(ordered)
        from == (p - 1) * l
        upto == Min(p * l, N)
    IN  /\ r.status = 200
        /\ Len(r.questions) = Max(0, upto - from)
        /\ \A i \in 1..Len(r.questions) :
             /\ r.questions[i].questionId = ordered[from + i]
             /\ r.questions[i].votes = questions[ordered[from + i]].votes
        /\ r.pagination = [currentPage |-> p, totalPages |-> CeilDiv(N, l),
                           totalItems |-> N, itemsPerPage |-> l]

\* Pages 1..totalPages of the request, one after the other.
RECURSIVE PagesUpTo(_, _)
PagesUpTo(args, p) ==
    IF p = 0 THEN << >>
    ELSE PagesUpTo(args, p - 1) \o ListedIds(get_questions_response(WithPage(args, p)))

\* C11: a getQuestions response for page p and limit l (p below 1 read as 1,
\* l below 1 as 1 and above 100 as 100) lists the items at positions
\* (p-1)*l up to min(p*l, N) of the ordered result of the N matching
\* questions, with totalItems = N, itemsPerPage = l, currentPage = p and
\* totalPages = ceil(N/l), at least 1, and leaves the store unchanged; and
\* in every state the pages 1..totalPages of a request, one after the
\* other, are the ordered result: every matching question exactly once.
C11_Pagination ==
    /\ [][ (resp' # resp /\ resp'.op = "getquestions" /\ AsksNumbers(resp'.args))
           => (IsPage(resp', resp'.args) /\ questions' = questions) ]_vars
    /\ [](\A args \in GetQuestionsArgs :
            AsksNumbers(args)
            => LET ordered == OrderedResult(args)
                   pages == PagesUpTo(args, CeilDiv(Len(ordered), LimitOf(args)))
               IN  /\ pages = ordered
                   /\ \A q \in DOMAIN questions :
                        Cardinality({i \in 1..Len(pages) : pages[i] = q})
                          = (IF InSeq(q, ordered) THEN 1 ELSE 0))

\* The second page of three questions listed two at a time, most voted
\* first: one question, the one with the fewest votes.
C11_Witness ==
    /\ resp.op = "getquestions" /\ resp.status = 200
    /\ resp.pagination = [currentPage |-> 2, totalPages |-> 2, totalItems |-> 3,
                          itemsPerPage |-> 2]
    /\ Len(resp.questions) = 1
    /\ "filter" \in DOMAIN resp.args
    /\ \E q \in DOMAIN questions : questions[q].votes > resp.questions[1].votes

\* The change of its votes a successful voteQuestion request asks for.
VoteOf(data) == IF data.voteType = "up" THEN 1 ELSE -1

\* C12: every voteQuestion request that names an existing question and a
\* non-empty voteType is one atomic step that adds 1 to the stored votes for
\* "up" and -1 for any other voteType and is answered 200, and the votes of
\* a question change in no other step; so after any interleaving of such
\* requests the votes are the initial value plus the "up" requests minus
\* the others.
C12_VoteQuestionAtomic ==
    [][ /\ \A q \in DOMAIN questions :
             questions'[q].votes # questions[q].votes
             => /\ resp'.op = "votequestion" /\ resp'.status = 200
                /\ resp'.data.questionId = q
                /\ questions'[q].votes = questions[q].votes + VoteOf(resp'.data)
                /\ \A o \in DOMAIN questions : o # q => questions'[o] = questions[o]
        /\ (resp' # resp /\ resp'.op = "votequestion"
              /\ "questionId" \in DOMAIN resp'.data /\ "voteType" \in DOMAIN resp'.data
              /\ resp'.data.voteType # "" /\ resp'.data.questionId \in DOMAIN questions)
           => /\ resp'.status = 200
              /\ questions'[resp'.data.questionId].votes
                   = questions[resp'.data.questionId].votes + VoteOf(resp'.data) ]_vars

\* A vote with a typo for its voteType has taken a question below zero
\* while another question stands above it.
C12_Witness ==
    /\ resp.op = "votequestion" /\ resp.status = 200
    /\ resp.data.voteType = "upp"
    /\ questions[resp.data.questionId].votes < 0
    /\ \E q \in DOMAIN questions : questions[q].votes > 0

\* C13: voteAnswer reads the answers array in one store call and writes the
\* whole array in another.  Every write of a voteAnswer request is answered 200
\* and stores the array that request read with its own vote added to the
\* first answer of the given id, whatever the store holds by then: a vote
\* that another request wrote between the read and the write is gone from
\* the stored array, though both requests were answered 200.
C13_VoteAnswerOverwrites ==
    [][ \A w \in Workers :
          (th[w].pc = "vote_update" /\ th'[w] = Idle)
          => LET read == th[w].answers
                 stored == questions[th[w].data.questionId].answers
                 written == questions'[th[w].data.questionId].answers
                 target == FirstWithId(read, th[w].data.answerId)
                 increment == IF th[w].data.voteType = "up" THEN 1 ELSE -1
             IN  /\ resp'.op = "voteanswer" /\ resp'.status = 200
                 /\ Len(written) = Len(read)
                 /\ \A i \in 1..Len(read) :
                      /\ written[i].votes
                           = read[i].votes + (IF i = target THEN increment ELSE 0)
                      /\ (i <= Len(stored) /\ stored[i].votes # read[i].votes /\ i = target)
                         => written[i].votes # stored[i].votes + increment ]_vars

\* Two requests have read the same array; the first has written its vote
\* and been answered 200, and the second is about to write over it.
C13_Witness ==
    \E w \in Workers :
        /\ th[w].pc = "vote_update"
        /\ resp.op = "voteanswer" /\ resp.status = 200
        /\ resp.data = th[w].data
        /\ LET read == th[w].answers
               stored == questions[th[w].data.questionId].answers
               target == FirstWithId(read, th[w].data.answerId)
           IN  /\ target # 0
               /\ Len(stored) = Len(read)
               /\ stored[target].votes = read[target].votes + 1

\* The answer a is one of the answers of the array: the same id, author,
\* content and time, whatever its votes and accepted flag.
AnswerKept(a, answers) ==
    \E j \in 1..Len(answers) :
        /\ answers[j].answerId = a.answerId /\ answers[j].userId = a.userId
        /\ answers[j].content = a.content /\ answers[j].createdAt = a.createdAt

\* C14: no step removes a user, group, question or discussion document, an
\* answer from a question's answers array, or a message from a discussion's
\* messages list.
C14_NothingRemoved ==
    [][ /\ DOMAIN users \subseteq DOMAIN users'
        /\ DOMAIN groups \subseteq DOMAIN groups'
        /\ DOMAIN questions \subseteq DOMAIN questions'
        /\ DOMAIN discussions \subseteq DOMAIN discussions'
        /\ \A q \in DOMAIN questions : \A i \in 1..Len(questions[q].answers) :
             AnswerKept(questions[q].answers[i], questions'[q].answers)
        /\ \A d \in DOMAIN discussions :
             Elems(discussions[d].messages) \subseteq Elems(discussions'[d].messages) ]_vars

\* ==================================================================== init
Init ==
    /\ users = << >>
    /\ groups = << >>
    /\ questions = << >>
    /\ discussions = << >>
    /\ clock = 0
    /\ th = [w \in Workers |-> Idle]
    /\ resp = NoResp

NextAccounts ==
    \/ \E w \in Workers : SignupCheck(w)
    \/ \E w \in Workers : SignupInsert(w)
    \/ Login

SpecAccounts == Init /\ [][NextAccounts]_vars

\* Profiles: signups one at a time, and profile updates.
NextProfile ==
    \/ SignupCheck(1)
    \/ SignupInsert(1)
    \/ update_profile(UpdateProfileBodies)

SpecProfile == Init /\ [][NextProfile]_vars

NextGroups ==
    \/ create_group(GroupDocIds, GroupsCreateBodies)
    \/ join_group_api(MemberBodies)
    \/ leave_group_api(MemberBodies)
    \/ get_groups

SpecGroups == Init /\ [][NextGroups]_vars

NextListGroups ==
    \/ create_group(OneGroup, ListGroupsCreateBodies)
    \/ join_group_api(MemberBodies)
    \/ leave_group_api(MemberBodies)
    \/ get_groups

SpecListGroups == Init /\ [][NextListGroups]_vars

\* Capacity: groups for one and for two members, joined, left and listed.
NextCapacity ==
    \/ create_group(GroupDocIds, CapacityCreateBodies)
    \/ join_group_api(GateMemberBodies)
    \/ leave_group_api(GateMemberBodies)
    \/ get_groups

SpecCapacity == Init /\ [][NextCapacity]_vars

\* The membership gate of the discussion handlers: one group, two
\* discussions, one request of two store calls in flight at a time, with the
\* one-call handlers of any number of other workers between its calls, all
\* within one tick of the clock.
NextGate ==
    \/ create_group(OneGroup, GateCreateBodies)
    \/ join_group_api(GateMemberBodies)
    \/ leave_group_api(GateMemberBodies)
    \/ CreateDiscussionCheck(1, CreateDiscussionBodies)
    \/ CreateDiscussionInsert(1, DiscussionDocIds, SameTick)
    \/ get_messages(GetMessagesArgs)
    \/ SendCheck(1, MessageBodies)
    \/ SendUpdate(1, SameTick, SameTick)

SpecGate == Init /\ [][NextGate]_vars

\* The last message of a discussion: one group, one discussion, sendMessage
\* requests of the workers interleaved at their store calls, the clock
\* advancing by any number of ticks between requests.
NextMessages ==
    \/ create_group(OneGroup, GateCreateBodies)
    \/ CreateDiscussionCheck(1, CreateDiscussionBodies)
    \/ CreateDiscussionInsert(1, OneDiscussion, MaxClock)
    \/ \E w \in Workers : SendCheck(w, LastMessageBodies)
    \/ \E w \in Workers : SendUpdate(w, MaxClock, SameTick)

SpecMessages == Init /\ [][NextMessages]_vars

\* Accepting answers: one question, its answers added at any times (the two
\* clock reads of one /addanswer within one tick), one /acceptanswer and one
\* /voteanswer request in flight at a time, with the one-call handlers of
\* any number of other workers between their calls.
NextAccept ==
    \/ create_question(OneQuestion, CreateQuestionBodies)
    \/ add_answer(AddAnswerBodies, MaxClock, SameTick)
    \/ AcceptRead(1, AcceptBodies)
    \/ AcceptUpdate(1)
    \/ VoteRead(2, UpVoteBodies)
    \/ VoteUpdate(2)

SpecAccept == Init /\ [][NextAccept]_vars

\* Voting on answers: one question, its answers added at any times, two
\* /voteanswer requests in flight at a time.
NextVotes ==
    \/ create_question(OneQuestion, PlainCreateQuestionBodies)
    \/ add_answer(AddAnswerBodies, MaxClock, SameTick)
    \/ \E w \in Workers : VoteRead(w, VoteAnswerBodies)
    \/ \E w \in Workers : VoteUpdate(w)

SpecVotes == Init /\ [][NextVotes]_vars

\* Listing questions: three questions, with and without a tag, voted on and
\* listed page by page.
NextQuestions ==
    \/ create_question(QuestionDocIds, ListedCreateQuestionBodies)
    \/ vote_question(VoteQuestionBodies)
    \/ get_questions(GetQuestionsArgs)

SpecQuestions == Init /\ [][NextQuestions]_vars

====
